---- MODULE Spec2Model ----
(***************************************************************************)
(* Model of bootstrap.py: the self-bootstrapping launcher.  A chain of     *)
(* processes runs initialize(); the filesystem (virtual environment,       *)
(* manifest) is shared by the chain; each process has its own environment  *)
(* variables, argument vector and position in initialize().                *)
(***************************************************************************)
EXTENDS Integers, Sequences, FiniteSets, TLC

\* ------------------------------------------------------------ configuration
VENV_DIR_NAME == ".venv"
REQUIREMENTS_FILE == "requirements.txt"
REQUIRED_IMPORTS == <<"rich", "tomli">>
REQUIRED_PACKAGES == <<"rich", "tomli">>

MARKER == "GRADER_BOOTSTRAPPED"
SENTINEL == "1"
INDEX_URL == "https://pypi.tuna.tsinghua.edu.cn/simple"

\* ------------------------------------------------------------------ bounds
\* exit statuses of subprocesses and of the payload range over 0..MaxStatus
MaxStatus == 2
\* the chain of handoffs is cut after this many launches
MaxHandoffs == 2

\* ------------------------------------------------------- sets of inputs
Platforms == {"win32", "posix"}
Pkgs == {"rich", "tomli"}
Statuses == 0..MaxStatus
MarkerValues == {"1", "0", "true"}
PathValues == {"/usr/bin"}
ArgvChoices == {<<"grader.py">>, <<"grader.py", "-v", "run">>}

\* exit status of an interpreter that dies of an uncaught exception
UncaughtStatus == 1
\* sys.exit(1) in install_dependencies
InstallFailStatus == 1
\* sys.exit(0) in restart_in_venv
HandoffExitStatus == 0

VARIABLES
    platform,      \* sys.platform of the host
    dirExists,     \* <root>/.venv exists
    pythonExists,  \* the interpreter inside the environment exists
    pipExists,     \* the package manager inside the environment exists
    venvPkgs,      \* capabilities importable by the environment's interpreter
    sysPkgs,       \* capabilities importable by the host interpreter
    reqExists,     \* <root>/requirements.txt exists
    reqPkgs,       \* what installing from the manifest makes importable
    procs,         \* stack of live processes; the last one is running
    handoffs       \* history: one record per interpreter launched by restart_in_venv

vars == <<platform, dirExists, pythonExists, pipExists, venvPkgs, sysPkgs,
          reqExists, reqPkgs, procs, handoffs>>

fsVars == <<dirExists, pythonExists, pipExists, venvPkgs>>
hostVars == <<platform, sysPkgs, reqExists, reqPkgs>>

\* ------------------------------------------------------------ pure helpers
\* get_venv_paths: the three paths, as strings
get_venv_paths(plat) ==
    IF plat = "win32"
    THEN [venv_dir |-> ".venv", python |-> ".venv/Scripts/python.exe",
          pip |-> ".venv/Scripts/pip.exe"]
    ELSE [venv_dir |-> ".venv", python |-> ".venv/bin/python",
          pip |-> ".venv/bin/pip"]

\* os.environ.get(name): the value, or "None" when the variable is absent
EnvGet(environ, name) ==
    IF name \in DOMAIN environ THEN environ[name] ELSE "None"

\* env = os.environ.copy(); env[name] = value
EnvSet(environ, name, value) ==
    [n \in (DOMAIN environ) \cup {name} |-> IF n = name THEN value ELSE environ[n]]

\* mutant: any value of the variable counts as set
is_in_venv_AnyValue(environ) == MARKER \in DOMAIN environ

\* is_in_venv = os.environ.get("GRADER_BOOTSTRAPPED") == "1"
is_in_venv(environ) == EnvGet(environ, MARKER) = SENTINEL

\* mutant: every identifier is tried, a failure does not stop the loop
ImportAttempts_All(names, importable) == names

\* the fast path's loop: the identifiers __import__ is called on, in order,
\* stopping after the first one that raises ImportError
RECURSIVE ImportAttempts(_, _)
ImportAttempts(names, importable) ==
    IF names = <<>> THEN <<>>
    ELSE IF Head(names) \in importable
         THEN <<Head(names)>> \o ImportAttempts(Tail(names), importable)
         ELSE <<Head(names)>>

\* the loop ran to its end without ImportError
FastPathOK(names, importable) ==
    LET a == ImportAttempts(names, importable)
    IN  Len(a) = Len(names) /\ (Len(a) > 0 => a[Len(a)] \in importable)

\* check_script = "; ".join(f"import {pkg}" ...), as a token sequence
RECURSIVE CheckScript(_)
CheckScript(names) ==
    IF names = <<>> THEN <<>>
    ELSE IF Len(names) = 1 THEN <<"import", Head(names)>>
    ELSE <<"import", Head(names), ";">> \o CheckScript(Tail(names))

\* subprocess.run(..., check=True) raises CalledProcessError
CalledProcessError(rc) == rc # 0

\* exit status of the inline import script run by the environment's interpreter
CheckScriptStatus(importable) ==
    IF FastPathOK(REQUIRED_IMPORTS, importable) THEN 0 ELSE 1

\* ------------------------------------------------------------- processes
NewProc(environ, argv, interp) ==
    [pc |-> "start",          \* position in initialize()
     environ |-> environ,     \* os.environ
     environ0 |-> environ,    \* os.environ when the process started (history)
     argv |-> argv,           \* sys.argv
     interp |-> interp,       \* "system" or "venv": which interpreter runs it
     dir0 |-> dirExists,      \* the environment directory existed at start (history)
     py0 |-> pythonExists,    \* the environment's interpreter existed at start (history)
     log |-> <<>>,            \* leaf operations called, in order (history)
     imports |-> <<>>,        \* identifiers the fast path tried (history)
     fastOK |-> <<>>,         \* whether the fast-path loop completed, once it ran
     importable |-> {},       \* what the interpreter could import at the fast path (history)
     isInVenv |-> FALSE,      \* local is_in_venv
     verified |-> <<>>,       \* result of check_venv_integrity, once it ran
     pyAtVerify |-> <<>>,     \* python_executable.exists() as the check saw it (history)
     checkStatus |-> <<>>,    \* exit statuses of the check subprocesses (history)
     spawned |-> <<>>,        \* command lines of the subprocesses it spawned
     pipStatus |-> <<>>,      \* exit statuses of the package-manager runs (history)
     launched |-> FALSE,      \* restart_in_venv launched the interpreter (history)
     fsWrites |-> 0,          \* filesystem writes it caused
     stdout |-> <<>>,
     stderr |-> <<>>,
     childStatus |-> <<>>,    \* exit status of the awaited child, once known
     status |-> <<>>]         \* its own exit status, once terminated

cur == procs[Len(procs)]
Importable(p) == IF p.interp = "venv" THEN venvPkgs ELSE sysPkgs
\* "finished": the payload ended; "exited": sys.exit; "raised": uncaught exception
Terminated(p) == p.pc \in {"finished", "exited", "raised"}
SetCur(p) == procs' = [procs EXCEPT ![Len(procs)] = p]

\* an exception left initialize() uncaught: the interpreter dies
Raise(p) == [p EXCEPT !.pc = "raised", !.status = <<UncaughtStatus>>]


\* ------------------------------------------------------------ console text
MsgCreating == "[Bootstrap] Creating virtual environment"
MsgInstalling == "[Bootstrap] Installing dependencies..."
MsgRepairing == "[Bootstrap] In venv but dependencies missing. Repairing..."
MsgInstallFailed == "[Bootstrap] Error: Failed to install dependencies."

\* ------------------------------------------------------------------- Init
Init ==
    /\ platform \in Platforms
    /\ dirExists \in BOOLEAN
    /\ pythonExists \in BOOLEAN
    /\ pipExists \in BOOLEAN
    /\ venvPkgs \in SUBSET Pkgs
    /\ (~dirExists) => (~pythonExists /\ ~pipExists /\ venvPkgs = {})
    /\ sysPkgs \in SUBSET Pkgs
    /\ reqExists \in BOOLEAN
    /\ reqPkgs \in SUBSET Pkgs
    /\ (~reqExists) => reqPkgs = {}
    /\ handoffs = <<>>
    /\ \E names \in SUBSET {MARKER, "PATH"}, m \in MarkerValues, pv \in PathValues,
          argv \in ArgvChoices, interp \in {"system", "venv"} :
          /\ (interp = "venv") => pythonExists
          /\ procs = <<NewProc([n \in names |-> IF n = MARKER THEN m ELSE pv],
                               argv, interp)>>

\* --------------------------------------------------------------- initialize
\* mutant: the early return of line 85 is missing
FastPathBranch_NoReturn(ok, inVenv) ==
    IF inVenv THEN "repair" ELSE "provision"

\* lines 82-94: where initialize() goes after the fast-path loop
FastPathBranch(ok, inVenv) ==
    IF ok THEN "returned" ELSE IF inVenv THEN "repair" ELSE "provision"

\* lines 82-94: the fast path, then the read of the marker
FastPath ==
    /\ cur.pc = "start"
    /\ LET p == cur
           ok == FastPathOK(REQUIRED_IMPORTS, Importable(p))
           inVenv == is_in_venv(p.environ)
       IN  SetCur([p EXCEPT !.imports = ImportAttempts(REQUIRED_IMPORTS, Importable(p)),
                            !.fastOK = <<ok>>,
                            !.importable = Importable(p),
                            !.isInVenv = IF ok THEN FALSE ELSE inVenv,
                            !.pc = FastPathBranch(ok, inVenv)])
    /\ UNCHANGED <<fsVars, hostVars, handoffs>>

\* mutant: the manifest is ignored, the hardcoded list is always installed
PipCommand_NoManifest(pip, manifest) ==
    <<pip, "install", "--disable-pip-version-check", "-i", INDEX_URL>>
        \o REQUIRED_PACKAGES

\* lines 56, 60-63: the one command line handed to subprocess.run
PipCommand(pip, manifest) ==
    LET base_cmd == <<pip, "install", "--disable-pip-version-check", "-i", INDEX_URL>>
    IN  IF manifest THEN base_cmd \o <<"-r", REQUIREMENTS_FILE>>
        ELSE base_cmd \o REQUIRED_PACKAGES

\* what a successful run of that command makes importable in the environment
Installed(cmd) ==
    IF cmd[6] = "-r" THEN reqPkgs
    ELSE {cmd[i] : i \in 6..Len(cmd)}

\* mutant: the diagnostic is printed but sys.exit(1) is missing
InstallExit_NoExit(p, okPc, rc) ==
    IF CalledProcessError(rc)
    THEN [p EXCEPT !.stderr = Append(@, MsgInstallFailed), !.pc = okPc]
    ELSE [p EXCEPT !.pc = okPc]

\* mutant: the failure is swallowed, the caller continues
InstallExit_Swallow(p, okPc, rc) == [p EXCEPT !.pc = okPc]

\* lines 59-66: the try/except around the package manager's exit status
InstallExit(p, okPc, rc) ==
    IF CalledProcessError(rc)
    THEN [p EXCEPT !.stderr = Append(@, MsgInstallFailed),
                   !.pc = "exited", !.status = <<InstallFailStatus>>]
    ELSE [p EXCEPT !.pc = okPc]

\* lines 54-66, called by process record p; okPc is where the caller continues
install_dependencies(p, okPc) ==
    LET cmd == PipCommand(get_venv_paths(platform).pip, reqExists)
        p1 == [p EXCEPT !.stdout = Append(@, MsgInstalling),
                        !.log = Append(@, "install_dependencies")]
    IN  IF ~pipExists
        THEN \* subprocess.run raises FileNotFoundError, which nothing catches
             /\ SetCur(Raise(p1))
             /\ UNCHANGED <<fsVars, hostVars, handoffs>>
        ELSE \E rc \in Statuses :
             /\ SetCur(InstallExit([p1 EXCEPT !.spawned = Append(@, cmd),
                                              !.pipStatus = Append(@, rc),
                                              !.fsWrites = @ + 1], okPc, rc))
             /\ venvPkgs' = IF rc = 0 THEN venvPkgs \cup Installed(cmd) ELSE venvPkgs
             /\ UNCHANGED <<dirExists, pythonExists, pipExists, hostVars, handoffs>>

\* mutant: the return of line 97 is missing, control falls through to the handoff
Repair_FallThrough ==
    /\ cur.pc = "repair"
    /\ install_dependencies([cur EXCEPT !.stdout = Append(@, MsgRepairing)], "provision")

\* lines 94-97: already relaunched and still unsatisfied
Repair ==
    /\ cur.pc = "repair"
    /\ install_dependencies([cur EXCEPT !.stdout = Append(@, MsgRepairing)], "returned")

\* mutant: venv.create is called without the exists() test
create_venv_if_missing_NoCheck ==
    /\ cur.pc = "provision"
    /\ dirExists' = TRUE /\ pythonExists' = TRUE /\ pipExists' = TRUE
    /\ venvPkgs' = venvPkgs
    /\ SetCur([cur EXCEPT !.log = Append(@, "create_venv_if_missing"),
                          !.stdout = Append(@, MsgCreating),
                          !.fsWrites = @ + 1, !.pc = "verify"])
    /\ UNCHANGED <<hostVars, handoffs>>

\* lines 49-52 (called at line 102)
create_venv_if_missing ==
    /\ cur.pc = "provision"
    /\ LET p == [cur EXCEPT !.log = Append(@, "create_venv_if_missing")]
           p1 == [p EXCEPT !.stdout = Append(@, MsgCreating), !.fsWrites = @ + 1]
       IN  IF dirExists
           THEN /\ SetCur([p EXCEPT !.pc = "verify"])
                /\ UNCHANGED fsVars
           ELSE \E ok \in BOOLEAN, d \in BOOLEAN, py \in BOOLEAN :
                IF ok
                THEN \* venv.create(venv_dir, with_pip=True) succeeded
                     /\ d /\ py
                     /\ dirExists' = TRUE /\ pythonExists' = TRUE /\ pipExists' = TRUE
                     /\ venvPkgs' = {}
                     /\ SetCur([p1 EXCEPT !.pc = "verify"])
                ELSE \* venv.create raised part-way: the exception propagates
                     /\ py => d
                     /\ dirExists' = d /\ pythonExists' = py
                     /\ UNCHANGED <<pipExists, venvPkgs>>
                     /\ SetCur(Raise(p1))
    /\ UNCHANGED <<hostVars, handoffs>>

\* mutant: the exists() test of line 31 is missing
IntegrityResult_NoExistsCheck(exists, rc) == ~CalledProcessError(rc)
\* mutant: the exit status is not looked at (check=True missing)
IntegrityResult_NoCheck(exists, rc) == exists
\* mutant: a missing interpreter is reported as satisfied
IntegrityResult_MissingIsOK(exists, rc) ==
    IF ~exists THEN TRUE ELSE ~CalledProcessError(rc)

\* lines 31-47: the boolean check_venv_integrity returns
IntegrityResult(exists, rc) ==
    IF ~exists THEN FALSE ELSE ~CalledProcessError(rc)

\* mutant: the installer runs whatever the check said
VerifyBranch_AlwaysInstall(satisfied) == "install"
\* mutant: the installer is skipped whatever the check said
VerifyBranch_NeverInstall(satisfied) == "handoff"

\* lines 106-110: install only when the check failed
VerifyBranch(satisfied) == IF ~satisfied THEN "install" ELSE "handoff"

\* lines 26-47 (called at line 106)
check_venv_integrity ==
    /\ cur.pc = "verify"
    /\ \E rc \in Statuses :
          \* the inline script exits 0 exactly when every import succeeds
          /\ (rc = 0) <=> (CheckScriptStatus(venvPkgs) = 0)
          /\ pythonExists \/ rc = CheckScriptStatus(venvPkgs)
          /\ LET p == [cur EXCEPT !.log = Append(@, "check_venv_integrity"),
                                  !.pyAtVerify = <<pythonExists>>]
                 cmd == <<get_venv_paths(platform).python, "-c">>
                            \o CheckScript(REQUIRED_IMPORTS)
                 result == IntegrityResult(pythonExists, rc)
                 p1 == IF pythonExists
                       THEN [p EXCEPT !.spawned = Append(@, cmd),
                                      !.checkStatus = Append(@, rc)]
                       ELSE p
             IN  SetCur([p1 EXCEPT !.verified = <<result>>, !.pc = VerifyBranch(result)])
    /\ UNCHANGED <<fsVars, hostVars, handoffs>>

\* line 107
InstallOuter ==
    /\ cur.pc = "install"
    /\ install_dependencies(cur, "handoff")

\* line 75: subprocess.run(args, env=env) gives the child the dict it is passed
SpawnEnv(environ, env) == env
\* line 78: os.execv(path, args) takes no environment; the new image keeps
\* the process's own os.environ
ExecvEnv(environ, env) == environ

\* mutant: only the script path is passed on
HandoffArgs_ScriptOnly(python, argv) == <<python, argv[1]>>

\* line 72: args = [str(python_executable)] + sys.argv
HandoffArgs(python, argv) == <<python>> \o argv

\* mutant: env = os.environ (no copy), the marker lands in os.environ
OwnEnviron_Aliased(environ) == EnvSet(environ, MARKER, SENTINEL)

\* lines 70-71: the marker is written into a copy, os.environ itself is untouched
OwnEnviron(environ) == environ

\* lines 68-78 (called at line 110)
restart_in_venv ==
    /\ cur.pc = "handoff"
    /\ Len(handoffs) < MaxHandoffs
    /\ LET python == get_venv_paths(platform).python
           p == [cur EXCEPT !.log = Append(@, "restart_in_venv"),
                            !.environ = OwnEnviron(@)]
           env == EnvSet(cur.environ, MARKER, SENTINEL)
           args == HandoffArgs(python, p.argv)
       IN  IF ~pythonExists
           THEN \* launching fails with FileNotFoundError, which propagates
                /\ SetCur(Raise(p))
                /\ UNCHANGED handoffs
           ELSE IF platform = "win32"
           THEN LET parent == [p EXCEPT !.pc = "waiting", !.launched = TRUE,
                                         !.spawned = Append(@, args)]
                    launched == SpawnEnv(p.environ, env)
                IN  /\ procs' = Append([procs EXCEPT ![Len(procs)] = parent],
                                       NewProc(launched, Tail(args), "venv"))
                    /\ handoffs' = Append(handoffs,
                           [parent |-> parent, environ |-> launched, args |-> args,
                            strategy |-> "spawn"])
           ELSE LET parent == [p EXCEPT !.pc = "replaced", !.launched = TRUE]
                    launched == ExecvEnv(p.environ, env)
                IN  /\ SetCur(NewProc(launched, Tail(args), "venv"))
                    /\ handoffs' = Append(handoffs,
                           [parent |-> parent, environ |-> launched, args |-> args,
                            strategy |-> "replace"])
    /\ UNCHANGED <<fsVars, hostVars>>

\* mutant: subprocess.run without check=True, the parent always reaches sys.exit(0)
SpawnAndWaitOutcome_NoCheck(parent, cs) ==
    [parent EXCEPT !.childStatus = <<cs>>, !.pc = "exited",
                   !.status = <<HandoffExitStatus>>]

\* mutant: sys.exit(0) is missing, restart_in_venv returns to initialize's caller
SpawnAndWaitOutcome_Return(parent, cs) ==
    LET p == [parent EXCEPT !.childStatus = <<cs>>]
    IN  IF CalledProcessError(cs) THEN Raise(p) ELSE [p EXCEPT !.pc = "returned"]

\* lines 75-76: what the waiting parent does once the child has terminated
SpawnAndWaitOutcome(parent, cs) ==
    LET p == [parent EXCEPT !.childStatus = <<cs>>]
    IN  IF CalledProcessError(cs) THEN Raise(p)
        ELSE [p EXCEPT !.pc = "exited", !.status = <<HandoffExitStatus>>]

\* lines 75-76: subprocess.run returns (or raises) in the parent
ChildExit ==
    /\ Len(procs) > 1
    /\ Terminated(cur)
    /\ procs' = Append(SubSeq(procs, 1, Len(procs) - 2),
                       SpawnAndWaitOutcome(procs[Len(procs) - 1], cur.status[1]))
    /\ UNCHANGED <<fsVars, hostVars, handoffs>>

\* initialize() returned: the payload runs and the process ends with its status
Payload ==
    /\ cur.pc = "returned"
    /\ \E s \in Statuses :
          SetCur([cur EXCEPT !.pc = "finished", !.status = <<s>>])
    /\ UNCHANGED <<fsVars, hostVars, handoffs>>

Next ==
    \/ FastPath
    \/ Repair
    \/ create_venv_if_missing
    \/ check_venv_integrity
    \/ InstallOuter
    \/ restart_in_venv
    \/ ChildExit
    \/ Payload

Spec == Init /\ [][Next]_vars


\* ================================================================== claims
\* every invocation of initialize() seen so far: the live processes and the
\* ones that handed off
Invocations ==
    {procs[i] : i \in 1..Len(procs)} \cup {handoffs[i].parent : i \in 1..Len(handoffs)}

Count(s, e) == Cardinality({i \in 1..Len(s) : s[i] = e})
IsPrefix(s, t) == Len(s) <= Len(t) /\ \A i \in 1..Len(s) : s[i] = t[i]
PipCmdsOf(p) == SelectSeq(p.spawned, LAMBDA c : c[2] = "install")
BaseFlags(plat) ==
    <<get_venv_paths(plat).pip, "install", "--disable-pip-version-check", "-i",
      "https://pypi.tuna.tsinghua.edu.cn/simple">>
OuterFailed(p) == p.fastOK = <<FALSE>> /\ ~is_in_venv(p.environ)

\* C1: every interpreter launched by restart_in_venv, under either strategy,
\* gets the launcher's environment plus GRADER_BOOTSTRAPPED = "1".
C1_LaunchedEnvHasMarker ==
    \A i \in 1..Len(handoffs) :
        LET h == handoffs[i]
        IN  /\ DOMAIN h.environ = (DOMAIN h.parent.environ) \cup {"GRADER_BOOTSTRAPPED"}
            /\ h.environ["GRADER_BOOTSTRAPPED"] = "1"
            /\ \A n \in DOMAIN h.parent.environ :
                  n # "GRADER_BOOTSTRAPPED" => h.environ[n] = h.parent.environ[n]

\* C2: in the chain started by one top-level invocation at most one handoff
\* occurs: a process launched by a handoff never hands off itself.
C2_AtMostOneHandoff ==
    /\ Len(handoffs) <= 1
    /\ \A i \in 1..Len(handoffs) : handoffs[i].parent.interp # "venv" \/ i = 1

\* C3: when the fast path succeeds, initialize returns with no filesystem
\* write, no subprocess and no leaf operation called, whatever the marker,
\* the environment directory or the manifest.
C3_FastPathNoEffects ==
    \A p \in Invocations :
        p.fastOK = <<TRUE>> =>
            /\ p.pc \in {"returned", "finished"}
            /\ p.fsWrites = 0
            /\ p.spawned = <<>>
            /\ p.log = <<>>
            /\ ~p.launched

C3_Witness ==
    \E p \in Invocations :
        /\ p.fastOK = <<TRUE>> /\ p.pc = "finished"
        /\ is_in_venv(p.environ) /\ ~dirExists /\ reqExists

\* C4: marker set and fast path failed: the installer is called exactly once,
\* nothing is provisioned or verified, no interpreter is launched, and after
\* a successful install initialize returns to its caller.
C4_RepairInPlace ==
    \A p \in Invocations :
        (p.fastOK = <<FALSE>> /\ is_in_venv(p.environ)) =>
            /\ IsPrefix(p.log, <<"install_dependencies">>)
            /\ (p.pc # "repair" => p.log = <<"install_dependencies">>)
            /\ p.verified = <<>>
            /\ ~p.launched
            /\ Len(p.spawned) = Len(p.pipStatus)
            /\ Len(PipCmdsOf(p)) = Len(p.spawned)
            /\ Len(p.imports) <= Len(REQUIRED_IMPORTS)
            /\ (p.pipStatus = <<0>> => p.pc \in {"returned", "finished"})
            /\ (p.pc \in {"returned", "finished"} => p.pipStatus = <<0>>)

C4_Witness ==
    \E p \in Invocations :
        /\ p.fastOK = <<FALSE>> /\ is_in_venv(p.environ)
        /\ p.pipStatus = <<0>> /\ p.pc = "returned"

\* C5: marker unset, fast path failed, verifier satisfied: the installer is
\* never called, nothing is created, and the handoff is the next thing done.
C5_VerifiedSkipsInstall ==
    \A p \in Invocations :
        (OuterFailed(p) /\ p.verified = <<TRUE>>) =>
            /\ Count(p.log, "install_dependencies") = 0
            /\ p.pipStatus = <<>>
            /\ p.fsWrites = 0
            /\ (p.pc = "handoff" \/ p.launched)
            /\ (p.launched =>
                   p.log = <<"create_venv_if_missing", "check_venv_integrity",
                             "restart_in_venv">>)

C5_Witness ==
    \E i \in 1..Len(handoffs) :
        /\ OuterFailed(handoffs[i].parent)
        /\ handoffs[i].parent.verified = <<TRUE>>
        /\ handoffs[i].parent.launched

\* C6: fresh outer invocation (marker unset, fast path failed, no environment
\* directory, no manifest): provision, verify (unsatisfied), install the
\* default package set, handoff -- in that order, each once.
C6_FreshOrder ==
    \A p \in Invocations :
        (OuterFailed(p) /\ ~p.dir0 /\ ~reqExists) =>
            /\ IsPrefix(p.log, <<"create_venv_if_missing", "check_venv_integrity",
                                 "install_dependencies", "restart_in_venv">>)
            /\ p.verified \in {<<>>, <<FALSE>>}
            /\ PipCmdsOf(p) \in {<<>>, <<BaseFlags(platform) \o <<"rich", "tomli">> >>}
            /\ (p.launched =>
                  /\ p.log = <<"create_venv_if_missing", "check_venv_integrity",
                               "install_dependencies", "restart_in_venv">>
                  /\ p.stdout = <<MsgCreating, MsgInstalling>>
                  /\ p.verified = <<FALSE>>
                  /\ p.pipStatus = <<0>>
                  /\ Len(PipCmdsOf(p)) = 1)

C6_Witness ==
    \E i \in 1..Len(handoffs) :
        LET p == handoffs[i].parent
        IN  OuterFailed(p) /\ ~p.dir0 /\ ~reqExists /\ p.launched

\* C7: a non-zero exit of the package manager: one diagnostic on the error
\* stream, exit with a non-zero status, no second run of the package manager,
\* no handoff.
C7_InstallFailureFatal ==
    \A p \in Invocations :
        (\E i \in 1..Len(p.pipStatus) : p.pipStatus[i] # 0) =>
            /\ p.pc = "exited"
            /\ Len(p.status) = 1 /\ p.status[1] # 0
            /\ p.stderr = <<MsgInstallFailed>>
            /\ Len(p.pipStatus) = 1
            /\ Len(PipCmdsOf(p)) = 1
            /\ Count(p.log, "restart_in_venv") = 0
            /\ ~p.launched

C7_Witness ==
    \E p \in Invocations :
        /\ OuterFailed(p) /\ p.verified = <<FALSE>>
        /\ p.pipStatus = <<2>> /\ p.pc = "exited"

C9_SameFinalStatus ==
    (Len(procs) = 1 /\ Terminated(procs[1]) /\ procs[1].childStatus # <<>>) =>
        procs[1].status = procs[1].childStatus

\* C10: each call of install_dependencies runs the package manager once:
\* with -r <manifest> when the manifest exists, else with the hardcoded
\* packages; both forms carry the same base flags.
C10_OnePipCommand ==
    \A p \in Invocations :
        /\ Len(PipCmdsOf(p)) = Len(p.pipStatus)
        /\ Len(PipCmdsOf(p)) <= Count(p.log, "install_dependencies")
        /\ (pipExists => Len(PipCmdsOf(p)) = Count(p.log, "install_dependencies"))
        /\ \A i \in 1..Len(PipCmdsOf(p)) :
              LET c == PipCmdsOf(p)[i]
              IN  /\ SubSeq(c, 1, 5) = BaseFlags(platform)
                  /\ IF reqExists
                     THEN SubSeq(c, 6, Len(c)) = <<"-r", "requirements.txt">>
                     ELSE SubSeq(c, 6, Len(c)) = <<"rich", "tomli">>

C10_Witness ==
    \E p \in Invocations : reqExists /\ Len(PipCmdsOf(p)) = 1 /\ p.pipStatus = <<0>>


CheckCmdsOf(p) == SelectSeq(p.spawned, LAMBDA c : c[2] = "-c")
Last(s) == s[Len(s)]
OuterOrder ==
    <<"create_venv_if_missing", "check_venv_integrity", "install_dependencies",
      "restart_in_venv">>

\* C11: when the interpreter path does not exist, check_venv_integrity
\* returns unsatisfied and spawns nothing.
C11_MissingInterpreterUnsatisfied ==
    \A p \in Invocations :
        p.pyAtVerify = <<FALSE>> =>
            /\ p.verified = <<FALSE>>
            /\ CheckCmdsOf(p) = <<>>
            /\ p.checkStatus = <<>>
            /\ (Last(p.log) = "check_venv_integrity" => p.pc = "install")

C11_Witness ==
    \E p \in Invocations :
        /\ p.pyAtVerify = <<FALSE>> /\ p.pc = "install"
        /\ venvPkgs = {"rich", "tomli"}

\* C12: create_venv_if_missing on an existing directory creates nothing,
\* prints nothing, raises nothing and does not look inside the directory; a
\* call that returned leaves the directory in place, and the directory is
\* never removed, so a second call in a row is that no-op.
C12_ProvisionIdempotent ==
    [][ /\ (dirExists => dirExists')
        /\ (cur.pc = "provision" =>
              /\ Len(procs') = Len(procs)
              /\ (procs'[Len(procs)].pc = "verify" => dirExists')
              /\ (dirExists =>
                    /\ UNCHANGED fsVars
                    /\ procs'[Len(procs)].pc = "verify"
                    /\ procs'[Len(procs)].fsWrites = cur.fsWrites
                    /\ procs'[Len(procs)].stdout = cur.stdout)) ]_vars

\* two calls in one chain: the first created the environment, the second,
\* in the relaunched process, found it and returned
C12_Witness ==
    /\ Len(handoffs) >= 1
    /\ ~handoffs[1].parent.dir0
    /\ handoffs[1].parent.stdout[1] = MsgCreating
    /\ cur.log = <<"create_venv_if_missing">>
    /\ cur.pc = "verify" /\ cur.stdout = <<>> /\ cur.fsWrites = 0

\* C13: only the exact value "1" of GRADER_BOOTSTRAPPED selects the repair
\* path after a failed fast path; absent or any other value selects the
\* outer path.
C13_ExactSentinel ==
    \A p \in Invocations :
        p.fastOK = <<FALSE>> =>
            LET set == "GRADER_BOOTSTRAPPED" \in DOMAIN p.environ0
                          /\ p.environ0["GRADER_BOOTSTRAPPED"] = "1"
            IN  IF set
                THEN /\ p.pc \notin {"provision", "verify", "install", "handoff"}
                     /\ IsPrefix(p.log, <<"install_dependencies">>)
                ELSE /\ p.pc # "repair"
                     /\ Count(p.stdout, MsgRepairing) = 0
                     /\ (p.log = <<>> => p.pc = "provision")
                     /\ (p.log # <<>> => p.log[1] = "create_venv_if_missing")

C13_Witness ==
    \E p \in Invocations :
        /\ p.fastOK = <<FALSE>>
        /\ "GRADER_BOOTSTRAPPED" \in DOMAIN p.environ0
        /\ p.environ0["GRADER_BOOTSTRAPPED"] = "true"
        /\ p.log = <<"create_venv_if_missing", "check_venv_integrity">>

\* C14: the interpreter is launched with its own path followed by the
\* original argument vector, unchanged, under both strategies, so every
\* process of the chain has the argument vector of the first.
C14_ArgvPreserved ==
    /\ \A i \in 1..Len(handoffs) :
          LET h == handoffs[i]
          IN  /\ Len(h.args) = Len(h.parent.argv) + 1
              /\ h.args[1] = get_venv_paths(platform).python
              /\ \A k \in 1..Len(h.parent.argv) : h.args[k + 1] = h.parent.argv[k]
    /\ \A p \in Invocations, q \in Invocations : p.argv = q.argv

C14_Witness ==
    /\ Len(handoffs) = 1
    /\ handoffs[1].parent.argv = <<"grader.py", "-v", "run">>
    /\ cur.interp = "venv" /\ cur.pc = "start"
    /\ cur.argv = <<"grader.py", "-v", "run">>

\* C15: when the interpreter exists, check_venv_integrity spawns it once and
\* returns satisfied exactly when it exits 0; any other status gives
\* unsatisfied, never an error.
C15_SatisfiedIffExitZero ==
    \A p \in Invocations :
        p.pyAtVerify = <<TRUE>> =>
            /\ Len(CheckCmdsOf(p)) = 1
            /\ Len(p.checkStatus) = 1
            /\ p.verified = <<p.checkStatus[1] = 0>>
            /\ (Last(p.log) = "check_venv_integrity" => p.pc \in {"install", "handoff"})

C15_Witness ==
    \E p \in Invocations :
        p.pyAtVerify = <<TRUE>> /\ p.checkStatus = <<2>> /\ p.verified = <<FALSE>>

\* C16: the fast path tries the identifiers in order and stops at the first
\* that does not resolve; it is satisfied only if all of them resolve.
C16_FastPathShortCircuit ==
    \A p \in Invocations :
        p.fastOK # <<>> =>
            /\ IsPrefix(p.imports, <<"rich", "tomli">>)
            /\ p.imports # <<>>
            /\ \A i \in 1..(Len(p.imports) - 1) : p.imports[i] \in p.importable
            /\ p.fastOK = <<{"rich", "tomli"} \subseteq p.importable>>
            /\ (p.fastOK = <<FALSE>> => Last(p.imports) \notin p.importable)
            /\ (p.fastOK = <<TRUE>> => p.imports = <<"rich", "tomli">>)

C16_Witness ==
    \E p \in Invocations :
        p.importable = {"tomli"} /\ p.imports = <<"rich">> /\ p.fastOK = <<FALSE>>

\* C17: initialize returns to its caller only after a satisfied fast path,
\* or with the marker set and the installer exiting 0; on the outer path it
\* never returns under either strategy.
C17_ReturnsOnlyTwoWays ==
    \A p \in Invocations :
        /\ (p.pc \in {"returned", "finished"} =>
               \/ p.fastOK = <<TRUE>>
               \/ (p.fastOK = <<FALSE>> /\ is_in_venv(p.environ0) /\ p.pipStatus = <<0>>))
        /\ (OuterFailed(p) => p.pc \notin {"returned", "finished", "repair"})

C17_Witness ==
    \E p \in Invocations :
        OuterFailed(p) /\ p.childStatus = <<0>> /\ p.pc = "exited"

\* C18: restart_in_venv is called only after check_venv_integrity returned
\* satisfied or the package manager exited 0 in the same invocation; after a
\* failed install the invocation goes no further.
C18_HandoffOnlyAfterConfirmOrRepair ==
    \A p \in Invocations :
        /\ ((p.pc = "handoff" \/ Count(p.log, "restart_in_venv") > 0) =>
               \/ p.verified = <<TRUE>>
               \/ (p.verified = <<FALSE>> /\ p.pipStatus = <<0>>))
        /\ ((p.pipStatus # <<>> /\ Last(p.pipStatus) # 0) =>
               /\ Last(p.log) = "install_dependencies"
               /\ p.pc = "exited")

C18_Witness ==
    \E i \in 1..Len(handoffs) :
        /\ handoffs[i].parent.verified = <<FALSE>>
        /\ handoffs[i].parent.pipStatus = <<0>>

\* C19: restart_in_venv does not change the calling process's own
\* environment: after the call, and after the child has run, it is what it
\* was when the process started.
C19_OwnEnvironmentUnchanged ==
    \A p \in Invocations :
        Count(p.log, "restart_in_venv") > 0 => p.environ = p.environ0

C19_Witness ==
    \E p \in Invocations :
        /\ p.launched /\ p.childStatus # <<>>
        /\ "GRADER_BOOTSTRAPPED" \notin DOMAIN p.environ

\* C20: outer path, directory present, interpreter absent: nothing is
\* created, the verifier spawns nothing and says unsatisfied, and the
\* installer runs before restart_in_venv is called.
C20_DamagedEnvironment ==
    \A p \in Invocations :
        (OuterFailed(p) /\ p.dir0 /\ ~p.py0) =>
            /\ Count(p.stdout, MsgCreating) = 0
            /\ CheckCmdsOf(p) = <<>>
            /\ p.verified \in {<<>>, <<FALSE>>}
            /\ IsPrefix(p.log, OuterOrder)
            /\ (p.pc = "handoff" => p.pipStatus = <<0>>)
            /\ (Count(p.log, "restart_in_venv") > 0 =>
                   /\ p.pipStatus = <<0>>
                   /\ Len(PipCmdsOf(p)) = 1
                   /\ ~p.launched /\ p.pc = "raised")

C20_Witness ==
    \E p \in Invocations :
        /\ OuterFailed(p) /\ p.dir0 /\ ~p.py0
        /\ p.log = OuterOrder /\ p.pipStatus = <<0>>

====
